---- MODULE Spec2Model ----
(***************************************************************************)
(* TaskScheduler of src/coordination/scheduler.ts as a state machine.      *)
(*                                                                         *)
(* The four indices of the class are the variables tasks (with taskKeys,   *)
(* the key order of the Map), agentTasks, taskDependencies and             *)
(* completedTasks.  A JavaScript Set is an insertion-ordered sequence      *)
(* without duplicates, because the code iterates Sets and the order of the *)
(* iteration decides which cancellation reason a task gets.  A Map that is *)
(* only looked up by key is a function whose DOMAIN is its key set.        *)
(*                                                                         *)
(* Timers (setTimeout / setInterval) are the bag timers plus the counter   *)
(* intervals.  Time is kept relative: every timer carries the milliseconds *)
(* that remain until it is due and every task carries runtime, the         *)
(* milliseconds since its startedAt; Tick lets TickMs milliseconds pass.   *)
(* A due timer may fire at any later moment (the event loop gives no upper *)
(* bound on lateness).                                                     *)
(*                                                                         *)
(* Every handler is an operator from a scheduler state W (a record of the  *)
(* indices, the timers, the events emitted so far and the task objects     *)
(* removed so far) to the state it leaves.  The async handlers run their   *)
(* synchronous prefix up to the first await and leave a chain of suspended *)
(* frames; RunMicrotasks resumes the chains in promise-job (FIFO) order.   *)
(* In Spec every call runs until its promise settles before the next call  *)
(* or timer callback starts: awaits only yield to the microtask queue.     *)
(***************************************************************************)
EXTENDS Integers, Sequences, FiniteSets, Bags, TLC

\* ------------------------------------------------------------------ bounds
TaskIds == {"A", "B", "C"}
AgentIds == {"a1", "a2"}
\* the longest dependencies array a caller passes
MaxDeps == 2
\* the most timers armed at once (a call that would arm more is not made)
MaxTimers == 3
\* the largest config.maxRetries a scheduler is constructed with
MaxRetriesLimit == 3
\* the history cap of cleanup(), 1000 in the code, scaled to the three ids
HistoryCap == 2
\* the most setInterval timers initialize() has armed
MaxIntervals == 2
\* the most assignTask calls of a run of Spec, SpecRetry, SpecCascade
MaxAssigns == 4
MaxAssignsRetry == 3
MaxAssignsCascade == 5
MaxAssignsLive == 2
\* milliseconds that pass in one Tick
TickMs == 1000

VARIABLES
    config,             \* CoordinationConfig given to the constructor
    tasks,              \* Map taskId -> ScheduledTask
    taskKeys,           \* key order of the Map tasks
    agentTasks,         \* Map agentId -> Set of taskIds
    taskDependencies,   \* Map taskId -> Set of dependent taskIds
    completedTasks,     \* Set of taskIds
    timers,             \* bag of armed setTimeout timers
    intervals,          \* number of armed setInterval timers
    everCompleted,      \* history: ids some completeTask call has completed
    assignCalls         \* history: number of assignTask calls made so far

vars == <<config, tasks, taskKeys, agentTasks, taskDependencies, completedTasks,
          timers, intervals, everCompleted, assignCalls>>

\* ------------------------------------------------------- Set and Map helpers
Range(s) == {s[i] : i \in DOMAIN s}

\* Set.prototype.add: an element already present keeps its position
SetAdd(s, x) == IF x \in Range(s) THEN s ELSE Append(s, x)

\* Set.prototype.delete
SetDelete(s, x) == SelectSeq(s, LAMBDA y : y # x)

\* Map.prototype.set / delete on a Map that is only looked up by key
MapSet(m, k, v) == [x \in (DOMAIN m) \cup {k} |-> IF x = k THEN v ELSE m[x]]
MapDelete(m, k) == [x \in (DOMAIN m) \ {k} |-> m[x]]
EmptyMap == [x \in {} |-> <<>>]

\* all sequences over S of length at most n
RECURSIVE SeqsUpTo(_, _)
SeqsUpTo(S, n) ==
    IF n = 0 THEN {<<>>}
    ELSE LET shorter == SeqsUpTo(S, n - 1)
         IN shorter \cup {Append(s, x) : s \in {t \in shorter : Len(t) = n - 1}, x \in S}

RECURSIVE Pow2(_)
Pow2(n) == IF n <= 0 THEN 1 ELSE 2 * Pow2(n - 1)

\* ------------------------------------------------------------------ events
TASK_STARTED == "task:started"
TASK_CANCELLED == "task:cancelled"
TASK_CREATED == "task:created"

StartedEvent(taskId, agentId) ==
    [type |-> TASK_STARTED, taskId |-> taskId, agentId |-> agentId, reason |-> "-"]
CancelledEvent(taskId, reason) ==
    [type |-> TASK_CANCELLED, taskId |-> taskId, agentId |-> "-", reason |-> reason]
CreatedEvent(taskId) ==
    [type |-> TASK_CREATED, taskId |-> taskId, agentId |-> "-", reason |-> "-"]

\* ------------------------------------------------------------------ timers
\* A timer of setTimeout.  kind "timeout" is the execution timeout startTask arms,
\* kind "retry" the retry delay failTask arms.  held says that the handle is the
\* value of tasks[taskId].timeout, the only handle clearTimeout is ever given.
TimeoutTimer(taskId) ==
    [kind |-> "timeout", taskId |-> taskId, remaining |-> config.resourceTimeout, held |-> TRUE]
RetryTimer(taskId, delay) ==
    [kind |-> "retry", taskId |-> taskId, remaining |-> delay, held |-> FALSE]

HeldTimers(ts, taskId) ==
    {t \in BagToSet(ts) : t.taskId = taskId /\ t.held}

\* clearTimeout(scheduled.timeout): disarms the held timer if it has not fired
clearTimeout(ts, taskId) ==
    [t \in BagToSet(ts) \ HeldTimers(ts, taskId) |-> ts[t]]

\* the handle in tasks[taskId].timeout is overwritten or dropped with its record:
\* the timer stays armed and nothing can clear it any more
DropHandle(ts, taskId) ==
    LET held == HeldTimers(ts, taskId)
        loose == {[t EXCEPT !.held = FALSE] : t \in held}
        rest == [t \in BagToSet(ts) \ held |-> ts[t]]
    IN rest (+) [t \in loose |-> 1]

\* ------------------------------------------------ the working state of a call
\* The indices and timers a call starts from, with what the call has produced so
\* far: events emitted, task objects dropped (with their final status), the error
\* thrown, and jobs, the promise-job queue of suspended frame chains.
State ==
    [tasks |-> tasks, taskKeys |-> taskKeys, agentTasks |-> agentTasks,
     taskDependencies |-> taskDependencies, completedTasks |-> completedTasks,
     timers |-> timers, events |-> <<>>, removed |-> <<>>,
     error |-> "none", unmet |-> <<>>, jobs |-> <<>>]

\* this.tasks.delete(taskId); this.agentTasks.get(scheduled.agentId)?.delete(taskId)
\* with the status the dropped task object keeps
RemoveTask(W, taskId, status) ==
    LET agentId == W.tasks[taskId].agentId
    IN [W EXCEPT
          !.tasks = MapDelete(@, taskId),
          !.taskKeys = SetDelete(@, taskId),
          !.agentTasks = IF agentId \in DOMAIN @
                         THEN [@ EXCEPT ![agentId] = SetDelete(@, taskId)]
                         ELSE @,
          !.removed = Append(@, [taskId |-> taskId, status |-> status])]

\* ---------------------------------------------------------------- startTask
\* the history fields after a startTask call and after a failure
Started(task) ==
    IF task.phase \in {"new", "waiting"}
    THEN [task EXCEPT !.starts = @ + 1, !.phase = "executing"]
    ELSE [task EXCEPT !.starts = 0, !.phase = "other"]
Failed(task) ==
    IF task.phase = "executing"
    THEN [task EXCEPT !.phase = "waiting"]
    ELSE [task EXCEPT !.starts = 0, !.phase = "other"]
Requeued(task) == [task EXCEPT !.starts = 0, !.phase = "other"]

\* mutant: the task is started and keeps the status it had
startTask_KeepsStatus(W, taskId) ==
    IF taskId \notin DOMAIN W.tasks THEN W
    ELSE [W EXCEPT
            !.tasks[taskId] = Started(@),
            !.tasks[taskId].runtime = 0,
            !.events = Append(@, StartedEvent(taskId, W.tasks[taskId].agentId)),
            !.timers = DropHandle(@, taskId) (+) SetToBag({TimeoutTimer(taskId)})]

\* mutant: the task is started without an execution timeout
startTask_NoTimeout(W, taskId) ==
    IF taskId \notin DOMAIN W.tasks THEN W
    ELSE [W EXCEPT
            !.tasks[taskId] = Started(@),
            !.tasks[taskId].status = "running",
            !.tasks[taskId].runtime = 0,
            !.events = Append(@, StartedEvent(taskId, W.tasks[taskId].agentId)),
            !.timers = DropHandle(@, taskId)]

startTask(W, taskId) ==
    IF taskId \notin DOMAIN W.tasks THEN W
    ELSE [W EXCEPT
            !.tasks[taskId] = Started(@),
            !.tasks[taskId].status = "running",
            !.tasks[taskId].runtime = 0,
            !.events = Append(@, StartedEvent(taskId, W.tasks[taskId].agentId)),
            !.timers = DropHandle(@, taskId) (+) SetToBag({TimeoutTimer(taskId)})]

\* mutant: a dependent is started whatever its dependencies
canStartTask_Always(W, task) == TRUE

canStartTask(W, task) ==
    \A i \in DOMAIN task.dependencies : task.dependencies[i] \in Range(W.completedTasks)

\* --------------------------------------------------------------- assignTask
\* mutant: the error carries every dependency, met or not
unmetDependencies_All(W, dependencies) == dependencies

\* mutant: the dependency check finds nothing unmet
unmetDependencies_None(W, dependencies) == <<>>

unmetDependencies(W, dependencies) ==
    SelectSeq(dependencies, LAMBDA depId : depId \notin Range(W.completedTasks))

RECURSIVE AddDependents(_, _, _)
AddDependents(deps, dependencies, taskId) ==
    IF dependencies = <<>> THEN deps
    ELSE LET depId == Head(dependencies)
             depSet == IF depId \in DOMAIN deps THEN deps[depId] ELSE <<>>
         IN AddDependents(MapSet(deps, depId, SetAdd(depSet, taskId)),
                          Tail(dependencies), taskId)

\* the ScheduledTask of lines 70-74 with the fields of its task that the scheduler
\* reads or writes; lastAttempt says whether the date is set, runtime is the time
\* since startedAt.  Two history fields: starts counts the startTask calls on the
\* record, phase is "executing" from a start to the next failure and "waiting"
\* from a failure to the next start as long as starts and failures have strictly
\* alternated and the record was never rescheduled, and "other" from then on.
NewScheduledTask(dependencies, agentId) ==
    [dependencies |-> dependencies, status |-> "assigned", agentId |-> agentId,
     attempts |-> 0, lastAttempt |-> FALSE, runtime |-> 0,
     starts |-> 0, phase |-> "new"]

assignTask(W, taskId, dependencies, agentId) ==
    IF Len(dependencies) > 0 /\ Len(unmetDependencies(W, dependencies)) > 0
    THEN [W EXCEPT !.error = "TaskDependencyError",
                   !.unmet = unmetDependencies(W, dependencies)]
    ELSE LET W1 == [W EXCEPT
                      !.tasks = MapSet(@, taskId, NewScheduledTask(dependencies, agentId)),
                      !.taskKeys = SetAdd(@, taskId),
                      !.timers = DropHandle(@, taskId),
                      !.agentTasks = MapSet(@, agentId,
                          SetAdd(IF agentId \in DOMAIN @ THEN @[agentId] ELSE <<>>, taskId)),
                      !.taskDependencies = AddDependents(@, dependencies, taskId)]
         IN startTask(W1, taskId)

\* ------------------------------------------------------------- completeTask
RECURSIVE StartDependents(_, _)
StartDependents(W, dependents) ==
    IF dependents = <<>> THEN W
    ELSE LET dependentId == Head(dependents)
             W1 == IF dependentId \in DOMAIN W.tasks /\ canStartTask(W, W.tasks[dependentId])
                   THEN startTask(W, dependentId)
                   ELSE W
         IN StartDependents(W1, Tail(dependents))

\* mutant: the id is recorded as completed before the task is looked up
completeTask_RecordsAbsent(W, taskId) ==
    IF taskId \notin DOMAIN W.tasks
    THEN [W EXCEPT !.error = "TaskError", !.completedTasks = SetAdd(@, taskId)]
    ELSE LET W1 == [W EXCEPT !.timers = clearTimeout(@, taskId)]
             W2 == [RemoveTask(W1, taskId, "completed") EXCEPT
                      !.completedTasks = SetAdd(@, taskId)]
             dependents == IF taskId \in DOMAIN W2.taskDependencies
                           THEN W2.taskDependencies[taskId] ELSE <<>>
         IN StartDependents(W2, dependents)

completeTask(W, taskId) ==
    IF taskId \notin DOMAIN W.tasks THEN [W EXCEPT !.error = "TaskError"]
    ELSE LET W1 == [W EXCEPT !.timers = clearTimeout(@, taskId)]
             W2 == [RemoveTask(W1, taskId, "completed") EXCEPT
                      !.completedTasks = SetAdd(@, taskId)]
             dependents == IF taskId \in DOMAIN W2.taskDependencies
                           THEN W2.taskDependencies[taskId] ELSE <<>>
         IN StartDependents(W2, dependents)

\* ------------------------------------------- async frames and the job queue
\* A suspended async call is a frame; a chain is a stack of frames, innermost
\* first, each awaiting the promise of the one before it.
Frame(fn, taskId, i, reason, pending) ==
    [fn |-> fn, taskId |-> taskId, i |-> i, reason |-> reason, pending |-> pending]
CancelTaskFrame == Frame("cancelTask", "-", 0, "-", <<>>)
FailTaskFrame == Frame("failTask", "-", 0, "-", <<>>)
\* cancelDependentTasks(taskId, reason) awaiting cancelTask of its i-th dependent
CancelDependentsFrame(taskId, i, reason) ==
    Frame("cancelDependentTasks", taskId, i, reason, <<>>)
\* performMaintenance awaiting failTask, with the keys its Map iterator has not visited
MaintenanceFrame(pending) == Frame("performMaintenance", "-", 0, "-", pending)

\* `await p` on a promise that is already settled: the chain whose innermost frame
\* awaits becomes a promise job.  An empty chain is a call made by the caller.
Await(W, chain) ==
    IF chain = <<>> THEN W ELSE [W EXCEPT !.jobs = Append(@, chain)]

\* --------------------------------------- cancelTask / cancelDependentTasks
RECURSIVE cancelTask(_, _, _, _)
RECURSIVE cancelDependentTasks(_, _, _, _)

\* mutant: a cancellation of a task that is no longer active is announced as well
cancelTask_AnnouncesAbsent(W, taskId, reason, callers) ==
    IF taskId \notin DOMAIN W.tasks
    THEN Await([W EXCEPT !.events = Append(@, CancelledEvent(taskId, reason))], callers)
    ELSE LET W1 == [W EXCEPT
                      !.timers = clearTimeout(@, taskId),
                      !.events = Append(@, CancelledEvent(taskId, reason))]
             W2 == RemoveTask(W1, taskId, "cancelled")
         IN cancelDependentTasks(W2, taskId, "Parent task cancelled",
                                 <<CancelTaskFrame>> \o callers)

\* mutant: the task is removed and its dependents cancelled without an event
cancelTask_Silent(W, taskId, reason, callers) ==
    IF taskId \notin DOMAIN W.tasks THEN Await(W, callers)
    ELSE LET W1 == [W EXCEPT !.timers = clearTimeout(@, taskId)]
             W2 == RemoveTask(W1, taskId, "cancelled")
         IN cancelDependentTasks(W2, taskId, "Parent task cancelled",
                                 <<CancelTaskFrame>> \o callers)

\* mutant: the dependents are cancelled also when the task itself is not active
cancelTask_CascadesWhenAbsent(W, taskId, reason, callers) ==
    LET W2 == IF taskId \notin DOMAIN W.tasks THEN W
              ELSE RemoveTask([W EXCEPT
                                 !.timers = clearTimeout(@, taskId),
                                 !.events = Append(@, CancelledEvent(taskId, reason))],
                              taskId, "cancelled")
    IN cancelDependentTasks(W2, taskId, "Parent task cancelled",
                            <<CancelTaskFrame>> \o callers)

\* mutant: the cascade hands on the reason cancelTask was called with
cancelTask_PropagatesReason(W, taskId, reason, callers) ==
    IF taskId \notin DOMAIN W.tasks THEN Await(W, callers)
    ELSE LET W1 == [W EXCEPT
                      !.timers = clearTimeout(@, taskId),
                      !.events = Append(@, CancelledEvent(taskId, reason))]
             W2 == RemoveTask(W1, taskId, "cancelled")
         IN cancelDependentTasks(W2, taskId, reason, <<CancelTaskFrame>> \o callers)

\* cancelTask(taskId, reason) called by the innermost frame of callers, up to its
\* first await
cancelTask(W, taskId, reason, callers) ==
    IF taskId \notin DOMAIN W.tasks THEN Await(W, callers)
    ELSE LET W1 == [W EXCEPT
                      !.timers = clearTimeout(@, taskId),
                      !.events = Append(@, CancelledEvent(taskId, reason))]
             W2 == RemoveTask(W1, taskId, "cancelled")
         IN cancelDependentTasks(W2, taskId, "Parent task cancelled",
                                 <<CancelTaskFrame>> \o callers)

\* mutant: the dependents of a task are left alone
cancelDependentTasks_Skip(W, taskId, reason, callers) == Await(W, callers)

\* cancelDependentTasks(taskId, reason) up to its first await: it calls cancelTask
\* for the first dependent and awaits it
cancelDependentTasks(W, taskId, reason, callers) ==
    IF taskId \notin DOMAIN W.taskDependencies \/ W.taskDependencies[taskId] = <<>>
    THEN Await(W, callers)
    ELSE cancelTask(W, W.taskDependencies[taskId][1], reason,
                    <<CancelDependentsFrame(taskId, 1, reason)>> \o callers)

\* ----------------------------------------------------------------- failTask
\* mutant: a task whose attempts have reached maxRetries is retried once more
shouldRetry_Inclusive(attempts) == attempts <= config.maxRetries

\* scheduled.attempts < this.config.maxRetries, attempts after the increment
shouldRetry(attempts) == attempts < config.maxRetries

\* mutant: the backoff doubles from the first retry on
retryDelayFor_Doubled(attempts) == config.retryDelay * Pow2(attempts)

\* this.config.retryDelay * Math.pow(2, scheduled.attempts - 1)
retryDelayFor(attempts) == config.retryDelay * Pow2(attempts - 1)

\* mutant: a failure that schedules a retry also takes the task out of the indices
failTask_RemovesOnRetry(W, taskId, callers) ==
    IF taskId \notin DOMAIN W.tasks THEN [W EXCEPT !.error = "TaskError"]
    ELSE LET attempts == W.tasks[taskId].attempts + 1
             W1 == [W EXCEPT
                      !.timers = clearTimeout(@, taskId),
                      !.tasks[taskId] = Failed(@),
                      !.tasks[taskId].attempts = attempts,
                      !.tasks[taskId].lastAttempt = TRUE]
         IN IF shouldRetry(attempts)
            THEN Await([RemoveTask(W1, taskId, "failed") EXCEPT
                           !.timers = @ (+) SetToBag({RetryTimer(taskId, retryDelayFor(attempts))})],
                       callers)
            ELSE cancelDependentTasks(RemoveTask(W1, taskId, "failed"), taskId,
                                      "Parent task failed", <<FailTaskFrame>> \o callers)

\* failTask(taskId, error) up to its first await
failTask(W, taskId, callers) ==
    IF taskId \notin DOMAIN W.tasks THEN [W EXCEPT !.error = "TaskError"]
    ELSE LET attempts == W.tasks[taskId].attempts + 1
             W1 == [W EXCEPT
                      !.timers = clearTimeout(@, taskId),
                      !.tasks[taskId] = Failed(@),
                      !.tasks[taskId].attempts = attempts,
                      !.tasks[taskId].lastAttempt = TRUE]
         IN IF shouldRetry(attempts)
            THEN Await([W1 EXCEPT
                           !.timers = @ (+) SetToBag({RetryTimer(taskId, retryDelayFor(attempts))})],
                       callers)
            ELSE cancelDependentTasks(RemoveTask(W1, taskId, "failed"), taskId,
                                      "Parent task failed", <<FailTaskFrame>> \o callers)

\* ------------------------------------------------------------------ cleanup
\* mutant: the oldest ids are evicted and their dependents stay recorded
cleanup_KeepsEdges(W) ==
    IF Len(W.completedTasks) > HistoryCap
    THEN [W EXCEPT !.completedTasks =
                      SubSeq(@, Len(W.completedTasks) - HistoryCap + 1, Len(@))]
    ELSE W

\* mutant: the history is never trimmed
cleanup_Skips(W) == W

\* mutant: the surplus is taken from the end of the insertion order
cleanup_EvictsNewest(W) ==
    IF Len(W.completedTasks) > HistoryCap
    THEN LET evicted == {W.completedTasks[i] : i \in HistoryCap + 1 .. Len(W.completedTasks)}
         IN [W EXCEPT
               !.completedTasks = SubSeq(@, 1, HistoryCap),
               !.taskDependencies = [k \in (DOMAIN @) \ evicted |-> @[k]]]
    ELSE W

cleanup(W) ==
    IF Len(W.completedTasks) > HistoryCap
    THEN LET toRemove == Len(W.completedTasks) - HistoryCap
             evicted == {W.completedTasks[i] : i \in 1 .. toRemove}
         IN [W EXCEPT
               !.completedTasks = SubSeq(@, toRemove + 1, Len(@)),
               !.taskDependencies = [k \in (DOMAIN @) \ evicted |-> @[k]]]
    ELSE W

\* ------------------------------------------------------- performMaintenance
\* mutant: a task that has run for exactly twice resourceTimeout counts as stuck
isStuck_AtThreshold(task) ==
    task.status = "running" /\ task.runtime >= config.resourceTimeout * 2

\* status === "running" && startedAt, and runtime > this.config.resourceTimeout * 2
isStuck(task) ==
    task.status = "running" /\ task.runtime > config.resourceTimeout * 2

\* the for-of loop over this.tasks from the keys not yet visited up to its next
\* await; an entry deleted before the iterator reaches it is skipped
RECURSIVE maintenanceLoop(_, _)
maintenanceLoop(W, pending) ==
    IF pending = <<>> THEN W
    ELSE LET taskId == Head(pending)
         IN IF taskId \in DOMAIN W.tasks /\ isStuck(W.tasks[taskId])
            THEN failTask(W, taskId, <<MaintenanceFrame(Tail(pending))>>)
            ELSE maintenanceLoop(W, Tail(pending))

performMaintenance(W) ==
    LET W1 == cleanup(W)
    IN maintenanceLoop(W1, W1.taskKeys)

\* ------------------------------------------------------------ promise jobs
\* the innermost frame of the first chain resumes; a frame that returns makes the
\* frame awaiting it a job at the end of the queue
RECURSIVE RunMicrotasks(_)
RunMicrotasks(W) ==
    IF W.jobs = <<>> THEN W
    ELSE LET chain == Head(W.jobs)
             f == Head(chain)
             callers == Tail(chain)
             W1 == [W EXCEPT !.jobs = Tail(@)]
         IN IF f.fn = "cancelDependentTasks"
            THEN LET dependents == W1.taskDependencies[f.taskId]
                 IN IF f.i + 1 > Len(dependents)
                    THEN RunMicrotasks(Await(W1, callers))
                    ELSE RunMicrotasks(
                            cancelTask(W1, dependents[f.i + 1], f.reason,
                                <<CancelDependentsFrame(f.taskId, f.i + 1, f.reason)>>
                                    \o callers))
            ELSE IF f.fn = "performMaintenance"
            THEN RunMicrotasks(maintenanceLoop(W1, f.pending))
            ELSE RunMicrotasks(Await(W1, callers))

\* Promise.all(taskIds.map(id => this.cancelTask(id, reason))): map runs the
\* synchronous prefix of every call in order before any promise job runs
RECURSIVE cancelAll(_, _, _)
cancelAll(W, taskIds, reason) ==
    IF taskIds = <<>> THEN W
    ELSE cancelAll(cancelTask(W, Head(taskIds), reason, <<>>), Tail(taskIds), reason)

\* ----------------------------------------------------------------- shutdown
\* mutant: the indices are cleared without cancelling the active tasks
shutdown_ClearsOnly(W) ==
    [W EXCEPT !.tasks = EmptyMap, !.taskKeys = <<>>, !.agentTasks = EmptyMap,
              !.taskDependencies = EmptyMap, !.completedTasks = <<>>]

\* mutant: the history of completed ids and the dependency index survive
shutdown_KeepsHistory(W) ==
    LET W1 == RunMicrotasks(cancelAll(W, W.taskKeys, "Scheduler shutdown"))
    IN [W1 EXCEPT !.tasks = EmptyMap, !.taskKeys = <<>>, !.agentTasks = EmptyMap]

shutdown(W) ==
    LET W1 == RunMicrotasks(cancelAll(W, W.taskKeys, "Scheduler shutdown"))
    IN [W1 EXCEPT !.tasks = EmptyMap, !.taskKeys = <<>>, !.agentTasks = EmptyMap,
                  !.taskDependencies = EmptyMap, !.completedTasks = <<>>]

\* --------------------------------------------------------- cancelAgentTasks
\* mutant: the tasks are cancelled and the agent's entry is kept
cancelAgentTasks_KeepsEntry(W, agentId) ==
    IF agentId \notin DOMAIN W.agentTasks THEN W
    ELSE RunMicrotasks(cancelAll(W, W.agentTasks[agentId], "Agent terminated"))

\* mutant: the agent's entry is deleted without cancelling its tasks
cancelAgentTasks_DeleteOnly(W, agentId) ==
    [W EXCEPT !.agentTasks = MapDelete(@, agentId)]

cancelAgentTasks(W, agentId) ==
    IF agentId \notin DOMAIN W.agentTasks THEN W
    ELSE LET W1 == RunMicrotasks(cancelAll(W, W.agentTasks[agentId], "Agent terminated"))
         IN [W1 EXCEPT !.agentTasks = MapDelete(@, agentId)]

\* ------------------------------------ a call made while another is suspended
\* A caller that does not await the promise of cancelAgentTasks or shutdown makes
\* its next call in the same turn: the async call has run up to its
\* `await Promise.all(promises)`, the synchronous assignTask runs, and only then do
\* the promise jobs run and the suspended call resume after its await.
cancelAgentTasksWhileAssign(W, agentId, taskId, dependencies, assignee) ==
    IF agentId \notin DOMAIN W.agentTasks
    THEN assignTask(W, taskId, dependencies, assignee)
    ELSE LET W1 == cancelAll(W, W.agentTasks[agentId], "Agent terminated")
             W2 == assignTask(W1, taskId, dependencies, assignee)
             W3 == RunMicrotasks(W2)
         IN [W3 EXCEPT !.agentTasks = MapDelete(@, agentId)]

shutdownWhileAssign(W, taskId, dependencies, assignee) ==
    LET W1 == cancelAll(W, W.taskKeys, "Scheduler shutdown")
        W2 == assignTask(W1, taskId, dependencies, assignee)
        W3 == RunMicrotasks(W2)
    IN [W3 EXCEPT !.tasks = EmptyMap, !.taskKeys = <<>>, !.agentTasks = EmptyMap,
                  !.taskDependencies = EmptyMap, !.completedTasks = <<>>]

\* ----------------------------------------------------- rescheduleAgentTasks
RECURSIVE RequeueEach(_, _)
RequeueEach(W, taskIds) ==
    IF taskIds = <<>> THEN W
    ELSE LET taskId == Head(taskIds)
             W1 == IF taskId \in DOMAIN W.tasks /\ W.tasks[taskId].status = "running"
                   THEN [W EXCEPT
                           !.tasks[taskId] = Requeued(@),
                           !.tasks[taskId].status = "queued",
                           !.tasks[taskId].attempts = 0,
                           !.events = Append(@, CreatedEvent(taskId))]
                   ELSE W
         IN RequeueEach(W1, Tail(taskIds))

rescheduleAgentTasks(W, agentId) ==
    IF agentId \notin DOMAIN W.agentTasks \/ Len(W.agentTasks[agentId]) = 0 THEN W
    ELSE RequeueEach(W, W.agentTasks[agentId])

\* ------------------------------------------------------------------ queries
getAgentTaskCount(agentId) ==
    IF agentId \in DOMAIN agentTasks THEN Len(agentTasks[agentId]) ELSE 0

\* the metrics of getHealthStatus(): the sizes of the indices and the active tasks
\* counted by status, completed starting from the size of completed-ids
StatusCount(status) == Cardinality({t \in DOMAIN tasks : tasks[t].status = status})
getHealthStatus ==
    [healthy |-> TRUE,
     activeTasks |-> Len(taskKeys),
     completedTasks |-> Len(completedTasks),
     agentsWithTasks |-> Cardinality(DOMAIN agentTasks),
     pending |-> StatusCount("pending"),
     queued |-> StatusCount("queued"),
     assigned |-> StatusCount("assigned"),
     running |-> StatusCount("running"),
     completed |-> Len(completedTasks) + StatusCount("completed"),
     failed |-> StatusCount("failed"),
     cancelled |-> StatusCount("cancelled")]

getAgentTasks(agentId) ==
    IF agentId \notin DOMAIN agentTasks THEN <<>>
    ELSE SelectSeq(agentTasks[agentId], LAMBDA taskId : taskId \in DOMAIN tasks)

\* ------------------------------------------------------------------ actions
\* the call leaves the scheduler in state W
Commit(W) ==
    /\ BagCardinality(W.timers) <= MaxTimers
    /\ tasks' = W.tasks
    /\ taskKeys' = W.taskKeys
    /\ agentTasks' = W.agentTasks
    /\ taskDependencies' = W.taskDependencies
    /\ completedTasks' = W.completedTasks
    /\ timers' = W.timers

\* reasons a caller passes to cancelTask
CallerReasons == {"user request", "Parent task cancelled"}

\* The callers of a specification use the task ids `ids`, the agent ids `agents`
\* and, for task id t, one of the dependency arrays lists[t].
AssignTask(ids, agents, lists, budget) ==
    \E taskId \in ids, agentId \in agents :
        \E dependencies \in lists[taskId] :
            /\ assignCalls < budget
            /\ Commit(assignTask(State, taskId, dependencies, agentId))
            /\ assignCalls' = assignCalls + 1
            /\ UNCHANGED <<config, intervals, everCompleted>>

CompleteTask(ids) ==
    \E taskId \in ids :
        LET W == completeTask(State, taskId)
        IN /\ Commit(W)
           /\ everCompleted' = IF W.error = "none" THEN everCompleted \cup {taskId}
                               ELSE everCompleted
           /\ UNCHANGED <<config, intervals, assignCalls>>

FailTask(ids) ==
    \E taskId \in ids :
        /\ Commit(RunMicrotasks(failTask(State, taskId, <<>>)))
        /\ UNCHANGED <<config, intervals, everCompleted, assignCalls>>

CancelTask(ids) ==
    \E taskId \in ids, reason \in CallerReasons :
        /\ Commit(RunMicrotasks(cancelTask(State, taskId, reason, <<>>)))
        /\ UNCHANGED <<config, intervals, everCompleted, assignCalls>>

CancelAgentTasks(agents) ==
    \E agentId \in agents :
        /\ Commit(cancelAgentTasks(State, agentId))
        /\ UNCHANGED <<config, intervals, everCompleted, assignCalls>>

RescheduleAgentTasks(agents) ==
    \E agentId \in agents :
        /\ Commit(rescheduleAgentTasks(State, agentId))
        /\ UNCHANGED <<config, intervals, everCompleted, assignCalls>>

PerformMaintenance ==
    /\ Commit(RunMicrotasks(performMaintenance(State)))
    /\ UNCHANGED <<config, intervals, everCompleted, assignCalls>>

CancelAgentTasksWhileAssign(ids, agents, lists, budget) ==
    \E agentId \in agents, taskId \in ids, assignee \in agents :
        \E dependencies \in lists[taskId] :
            /\ assignCalls < budget
            /\ Commit(cancelAgentTasksWhileAssign(State, agentId, taskId, dependencies, assignee))
            /\ assignCalls' = assignCalls + 1
            /\ UNCHANGED <<config, intervals, everCompleted>>

ShutdownWhileAssign(ids, agents, lists, budget) ==
    \E taskId \in ids, assignee \in agents :
        \E dependencies \in lists[taskId] :
            /\ assignCalls < budget
            /\ Commit(shutdownWhileAssign(State, taskId, dependencies, assignee))
            /\ assignCalls' = assignCalls + 1
            /\ UNCHANGED <<config, intervals, everCompleted>>

\* initialize(): setInterval(() => this.cleanup(), 60000)
Initialize ==
    /\ intervals < MaxIntervals
    /\ intervals' = intervals + 1
    /\ UNCHANGED <<config, tasks, taskKeys, agentTasks, taskDependencies,
                   completedTasks, timers, everCompleted, assignCalls>>

Shutdown ==
    /\ Commit(shutdown(State))
    /\ UNCHANGED <<config, intervals, everCompleted, assignCalls>>

\* mutant: the interval runs the whole maintenance sweep
IntervalFires_Sweeps ==
    /\ intervals > 0
    /\ Commit(RunMicrotasks(performMaintenance(State)))
    /\ UNCHANGED <<config, intervals, everCompleted, assignCalls>>

\* a tick of an interval timer of initialize(); its phase against the other
\* timers is not constrained
IntervalFires ==
    /\ intervals > 0
    /\ Commit(cleanup(State))
    /\ UNCHANGED <<config, intervals, everCompleted, assignCalls>>

Disarm(ts, t) == ts (-) SetToBag({t})

\* the callback of the execution timeout armed by startTask (lines 365-369); the
\* rejection of failTask for an absent task is caught and logged.  With timed the
\* timer is due; without, the time that has passed is not tracked and the timer
\* may be due.
TimeoutFires(timed) ==
    \E t \in BagToSet(timers) :
        /\ t.kind = "timeout"
        /\ timed => t.remaining = 0
        /\ Commit(RunMicrotasks(
               failTask([State EXCEPT !.timers = Disarm(@, t)], t.taskId, <<>>)))
        /\ UNCHANGED <<config, intervals, everCompleted, assignCalls>>

\* the callback of the retry delay armed by failTask (lines 174-176)
RetryFires(timed) ==
    \E t \in BagToSet(timers) :
        /\ t.kind = "retry"
        /\ timed => t.remaining = 0
        /\ Commit(startTask([State EXCEPT !.timers = Disarm(@, t)], t.taskId))
        /\ UNCHANGED <<config, intervals, everCompleted, assignCalls>>

\* runtime beyond 2 * resourceTimeout is all the code can tell apart
RuntimeCap == 2 * config.resourceTimeout + TickMs

Elapse(t) ==
    [t EXCEPT !.remaining = IF @ > TickMs THEN @ - TickMs ELSE 0]

\* TickMs milliseconds pass
Tick ==
    /\ timers' = [u \in {Elapse(t) : t \in BagToSet(timers)} |->
                    BagCardinality([t \in {x \in BagToSet(timers) : Elapse(x) = u} |-> timers[t]])]
    /\ tasks' = [id \in DOMAIN tasks |->
                    [tasks[id] EXCEPT !.runtime =
                        IF @ + TickMs > RuntimeCap THEN RuntimeCap ELSE @ + TickMs]]
    /\ UNCHANGED <<config, taskKeys, agentTasks, taskDependencies, completedTasks,
                   intervals, everCompleted, assignCalls>>

InitWith(maxRetries) ==
    /\ config = [maxRetries |-> maxRetries, retryDelay |-> 1000, resourceTimeout |-> 1000]
    /\ tasks = EmptyMap
    /\ taskKeys = <<>>
    /\ agentTasks = EmptyMap
    /\ taskDependencies = EmptyMap
    /\ completedTasks = <<>>
    /\ timers = EmptyBag
    /\ intervals = 0
    /\ everCompleted = {}
    /\ assignCalls = 0

\* ----------------------------------------------------------- specifications
\* Spec, the indices: callers use three task ids and two agents; task A is given
\* no dependency or B, task B none or A, task C any subset of A and B.  The
\* scheduler is constructed with maxRetries = 1, so every failure is terminal.
\* Elapsed time is not tracked: an armed timer may fire at any moment and
\* performMaintenance finds no task stuck.
Ids == {"A", "B", "C"}
Lists ==
    [t \in Ids |-> CASE t = "A" -> {<<>>, <<"B">>}
                     [] t = "B" -> {<<>>, <<"A">>}
                     [] OTHER -> {<<>>, <<"A">>, <<"B">>, <<"A", "B">>}]

Init == InitWith(1)

Next ==
    \/ AssignTask(Ids, AgentIds, Lists, MaxAssigns)
    \/ CompleteTask(Ids)
    \/ FailTask(Ids)
    \/ CancelTask(Ids)
    \/ CancelAgentTasks(AgentIds)
    \/ RescheduleAgentTasks(AgentIds)
    \/ PerformMaintenance
    \/ Initialize
    \/ Shutdown
    \/ IntervalFires
    \/ TimeoutFires(FALSE)

Spec == Init /\ [][Next]_vars

\* SpecRetry, retries and time: callers use two task ids (B may depend on A) and
\* one agent; the scheduler is constructed with any maxRetries up to
\* MaxRetriesLimit; time passes in Ticks and a timer fires when it is due or later.
IdsRetry == {"A", "B"}
ListsRetry == [t \in IdsRetry |-> IF t = "A" THEN {<<>>} ELSE {<<>>, <<"A">>}]
AgentsRetry == {"a1"}

InitRetry == \E maxRetries \in 0 .. MaxRetriesLimit : InitWith(maxRetries)

NextRetry ==
    \/ AssignTask(IdsRetry, AgentsRetry, ListsRetry, MaxAssignsRetry)
    \/ CompleteTask(IdsRetry)
    \/ FailTask(IdsRetry)
    \/ CancelTask(IdsRetry)
    \/ RescheduleAgentTasks(AgentsRetry)
    \/ PerformMaintenance
    \/ TimeoutFires(TRUE)
    \/ RetryFires(TRUE)
    \/ Tick

SpecRetry == InitRetry /\ [][NextRetry]_vars

\* SpecCascade, deep cascades: as Spec with one agent and one more assignTask call,
\* without the interval timer.
AgentsCascade == {"a1"}

NextCascade ==
    \/ AssignTask(Ids, AgentsCascade, Lists, MaxAssignsCascade)
    \/ CompleteTask(Ids)
    \/ FailTask(Ids)
    \/ CancelTask(Ids)
    \/ CancelAgentTasks(AgentsCascade)
    \/ PerformMaintenance
    \/ Shutdown
    \/ TimeoutFires(FALSE)

SpecCascade == Init /\ [][NextCascade]_vars

\* SpecInterval, the interval of initialize() against time: callers use three task
\* ids without dependencies and one agent, maxRetries = 1; time passes in Ticks,
\* an execution timeout fires when it is due or later, or not at all.
ListsInterval == [t \in Ids |-> {<<>>}]

NextInterval ==
    \/ Initialize
    \/ AssignTask(Ids, AgentsCascade, ListsInterval, MaxAssigns)
    \/ CompleteTask(Ids)
    \/ PerformMaintenance
    \/ IntervalFires
    \/ TimeoutFires(TRUE)
    \/ Tick

SpecInterval == Init /\ [][NextInterval]_vars

\* SpecLive, the timers left to themselves: two task ids on one agent, B given
\* no dependency or A; no rescheduleAgentTasks and no performMaintenance; callers
\* assign at most
\* MaxAssignsLive times and may or may not report completion or failure.  The
\* timer service lets time pass and fires every timer that stays due.
IdsLive == {"A", "B"}
ListsLive == [t \in IdsLive |-> IF t = "A" THEN {<<>>} ELSE {<<>>, <<"A">>}]

NextLive ==
    \/ AssignTask(IdsLive, AgentsRetry, ListsLive, MaxAssignsLive)
    \/ CompleteTask(IdsLive)
    \/ FailTask(IdsLive)
    \/ TimeoutFires(TRUE)
    \/ RetryFires(TRUE)
    \/ Tick

SpecLive ==
    /\ InitRetry /\ [][NextLive]_vars
    /\ WF_vars(Tick) /\ WF_vars(TimeoutFires(TRUE)) /\ WF_vars(RetryFires(TRUE))

\* SpecAsync, callers that do not await: as Spec, and a caller may call
\* assignTask in the turn in which it called cancelAgentTasks or shutdown.
NextAsync ==
    \/ AssignTask(Ids, AgentIds, Lists, MaxAssigns)
    \/ CompleteTask(Ids)
    \/ FailTask(Ids)
    \/ CancelTask(Ids)
    \/ CancelAgentTasks(AgentIds)
    \/ Shutdown
    \/ CancelAgentTasksWhileAssign(Ids, AgentIds, Lists, MaxAssigns)
    \/ ShutdownWhileAssign(Ids, AgentIds, Lists, MaxAssigns)
    \/ TimeoutFires(FALSE)

SpecAsync == Init /\ [][NextAsync]_vars

\* ==================================================================== claims
\* The claims about one call are stated of the call made in any reachable state
\* with any arguments: State is the state the call starts from and the handler
\* applied to it gives the state, events, dropped tasks and error it leaves.

AllDependencyLists == SeqsUpTo(TaskIds, MaxDeps)

\* the same indices and timers in W as before the call
SameIndices(W) ==
    /\ W.tasks = tasks
    /\ W.taskKeys = taskKeys
    /\ W.agentTasks = agentTasks
    /\ W.taskDependencies = taskDependencies
    /\ W.completedTasks = completedTasks
SameTimers(W) == W.timers = timers

\* C1: assignTask(T, agent) with at least one dependency of T not in completed-ids
\* fails with a DependencyError that carries exactly the unmet dependency ids (each
\* position of T.dependencies whose id is not completed, in order), and changes
\* none of the four indices, emits no event and arms no timer.
C1_UnmetDependenciesRejected ==
    \A taskId \in TaskIds, agentId \in AgentIds, dependencies \in AllDependencyLists :
        LET W == assignTask(State, taskId, dependencies, agentId)
            unmetAt == {i \in DOMAIN dependencies :
                            dependencies[i] \notin Range(completedTasks)}
        IN unmetAt # {} =>
             /\ W.error = "TaskDependencyError"
             /\ Len(W.unmet) = Cardinality(unmetAt)
             /\ Range(W.unmet) = {dependencies[i] : i \in unmetAt}
             /\ SameIndices(W) /\ SameTimers(W) /\ W.events = <<>>

\* C1 witness: with A completed and a task active, assignTask of a task that
\* depends on A and B is rejected naming B alone.
C1_Witness ==
    /\ "A" \in Range(completedTasks) /\ "B" \notin Range(completedTasks)
    /\ tasks # EmptyMap
    /\ LET W == assignTask(State, "C", <<"A", "B">>, "a1")
       IN W.error = "TaskDependencyError" /\ W.unmet = <<"B">>

\* C2: dependency gating.  Every task that is running (started by assignTask, by a
\* retry timer or as a dependent by completeTask) has only dependencies that an
\* earlier completeTask call completed.
C2_RunningAfterDependencies ==
    \A taskId \in DOMAIN tasks :
        tasks[taskId].status = "running" =>
            Range(tasks[taskId].dependencies) \subseteq everCompleted

\* C2 witness: B depends on A and is running its second execution, started by the
\* retry timer after one failure.
C2_Witness ==
    /\ "B" \in DOMAIN tasks
    /\ tasks["B"].dependencies = <<"A">>
    /\ tasks["B"].status = "running"
    /\ tasks["B"].attempts = 1 /\ tasks["B"].starts = 2 /\ tasks["B"].phase = "executing"

\* C3: no task id is at once in active-tasks and in completed-ids, also when
\* assignTask is called with an id that was used before.
C3_ActiveNotCompleted ==
    DOMAIN tasks \cap Range(completedTasks) = {}

\* C4: every ScheduledTask in active-tasks has its id in the agent index set of its
\* own agentId.
C4_ActiveTaskInAgentIndex ==
    \A taskId \in DOMAIN tasks :
        /\ tasks[taskId].agentId \in DOMAIN agentTasks
        /\ taskId \in Range(agentTasks[tasks[taskId].agentId])

\* C4 witness: A was assigned to a1 and again to a2 and B is active under a1: both
\* active tasks are indexed under their own agent (a1 still lists A as well).
C4_Witness ==
    /\ DOMAIN tasks = {"A", "B"}
    /\ tasks["A"].agentId = "a2" /\ tasks["B"].agentId = "a1"
    /\ DOMAIN agentTasks = {"a1", "a2"}
    /\ "A" \in Range(agentTasks["a1"]) /\ "A" \in Range(agentTasks["a2"])
    /\ "B" \in Range(agentTasks["a1"])

\* C5: no dangling agent-index entries.  Every id in the agent index set of agent a
\* is in active-tasks with agentId = a, so getAgentTaskCount(a) is the number of
\* active tasks of a, also after assignTask re-assigns a used id to another agent.
C5_AgentIndexExact ==
    \A agentId \in AgentIds :
        /\ agentId \in DOMAIN agentTasks =>
              \A taskId \in Range(agentTasks[agentId]) :
                  taskId \in DOMAIN tasks /\ tasks[taskId].agentId = agentId
        /\ getAgentTaskCount(agentId) =
              Cardinality({taskId \in DOMAIN tasks : tasks[taskId].agentId = agentId})

\* the armed retry timers of a task
RetryTimers(ts, taskId) ==
    BagCardinality([t \in {x \in BagToSet(ts) : x.kind = "retry" /\ x.taskId = taskId} |-> ts[t]])

\* the outcome of failTask(taskId) reported in the current state
FailOutcome(taskId) == RunMicrotasks(failTask(State, taskId, <<>>))

\* C6: with maxRetries = N >= 1, a task whose executions each end in one failure
\* and that is never rescheduled is started exactly N times: while it has been
\* started fewer than N times a failure of its execution arms a retry and keeps it
\* active; the failure of its N-th execution sets it failed and removes it, arming
\* no retry; it is never started more than N times.
C6_StartedMaxRetriesTimes ==
    config.maxRetries >= 1 =>
        \A taskId \in DOMAIN tasks :
            LET task == tasks[taskId]
                W == FailOutcome(taskId)
            IN /\ task.phase \in {"executing", "waiting"} => task.starts <= config.maxRetries
               /\ task.phase = "executing" /\ task.starts < config.maxRetries =>
                     /\ taskId \in DOMAIN W.tasks
                     /\ W.removed = <<>>
                     /\ RetryTimers(W.timers, taskId) = RetryTimers(timers, taskId) + 1
               /\ task.phase = "executing" /\ task.starts >= config.maxRetries =>
                     /\ task.starts = config.maxRetries
                     /\ taskId \notin DOMAIN W.tasks
                     /\ [taskId |-> taskId, status |-> "failed"] \in Range(W.removed)
                     /\ RetryTimers(W.timers, taskId) = RetryTimers(timers, taskId)

\* C6 witness: maxRetries = 3 and A runs its third execution after two failures,
\* each followed by a retry; its failure now removes it as failed.
C6_Witness ==
    /\ config.maxRetries = 3
    /\ "A" \in DOMAIN tasks
    /\ tasks["A"].phase = "executing" /\ tasks["A"].starts = 3 /\ tasks["A"].attempts = 2
    /\ "A" \notin DOMAIN FailOutcome("A").tasks
    /\ FailOutcome("A").removed = <<[taskId |-> "A", status |-> "failed"]>>

\* C7: a failTask call that schedules a retry arms it for
\* retryDelay * 2^(attempts - 1), attempts counted after the increment: 1000 for the
\* first retry and 2000 for the second with retryDelay = 1000.
C7_Backoff ==
    \A taskId \in DOMAIN tasks :
        LET attempts == tasks[taskId].attempts + 1
            W == FailOutcome(taskId)
            expected == CASE attempts = 1 -> config.retryDelay
                          [] attempts = 2 -> config.retryDelay * 2
                          [] attempts = 3 -> config.retryDelay * 4
                          [] OTHER -> config.retryDelay * 8
        IN attempts < config.maxRetries =>
              W.timers = clearTimeout(timers, taskId)
                            (+) SetToBag({[kind |-> "retry", taskId |-> taskId,
                                           remaining |-> expected, held |-> FALSE]})

\* C7 witness: retryDelay = 1000 and the second failure of A arms its retry for 2000.
C7_Witness ==
    /\ config.retryDelay = 1000 /\ config.maxRetries = 3
    /\ "A" \in DOMAIN tasks /\ tasks["A"].attempts = 1
    /\ BagIn([kind |-> "retry", taskId |-> "A", remaining |-> 2000, held |-> FALSE],
             FailOutcome("A").timers)

\* C8: a failTask call that schedules a retry leaves the task in active-tasks and
\* in its agent's index set, leaves completed-ids, the dependency index, every other
\* task, the timers of other tasks and the task's status unchanged, emits no event;
\* of the task only attempts, lastAttempt and its timers change.
C8_RetryKeepsTaskInPlace ==
    \A taskId \in DOMAIN tasks :
        LET task == tasks[taskId]
            W == FailOutcome(taskId)
        IN task.attempts + 1 < config.maxRetries =>
              /\ W.error = "none" /\ W.events = <<>> /\ W.removed = <<>>
              /\ W.taskKeys = taskKeys /\ W.agentTasks = agentTasks
              /\ W.taskDependencies = taskDependencies
              /\ W.completedTasks = completedTasks
              /\ DOMAIN W.tasks = DOMAIN tasks
              /\ \A other \in DOMAIN tasks \ {taskId} : W.tasks[other] = tasks[other]
              /\ taskId \in Range(W.agentTasks[task.agentId])
              /\ W.tasks[taskId].status = task.status
              /\ W.tasks[taskId].dependencies = task.dependencies
              /\ W.tasks[taskId].agentId = task.agentId
              /\ W.tasks[taskId].runtime = task.runtime
              /\ W.tasks[taskId].attempts = task.attempts + 1
              /\ W.tasks[taskId].lastAttempt
              /\ \A t \in BagToSet(timers) \cup BagToSet(W.timers) :
                    t.taskId # taskId => CopiesIn(t, W.timers) = CopiesIn(t, timers)

\* C8 witness: A and B are active, B depends on the completed A of an earlier
\* assignment, and a failure of B schedules a retry.
C8_Witness ==
    /\ DOMAIN tasks = {"A", "B"}
    /\ tasks["B"].dependencies = <<"A">>
    /\ tasks["B"].attempts + 1 < config.maxRetries
    /\ RetryTimers(FailOutcome("B").timers, "B") = RetryTimers(timers, "B") + 1

\* the recorded dependents of a task, this.taskDependencies.get(taskId)
Dependents(taskId) ==
    IF taskId \in DOMAIN taskDependencies THEN Range(taskDependencies[taskId]) ELSE {}

\* the tasks of `among` that the dependency index reaches from the tasks of `found`
\* over tasks of `among` only
RECURSIVE ReachedFrom(_, _)
ReachedFrom(found, among) ==
    LET more == {d \in among \ found : \E p \in found : d \in Dependents(p)}
    IN IF more = {} THEN found ELSE ReachedFrom(found \cup more, among)

\* the active tasks a cascade from taskId reaches: the active recorded dependents of
\* taskId and what the index reaches from them over active tasks, taskId itself
\* being no longer active
CascadeOf(taskId) ==
    LET among == DOMAIN tasks \ {taskId}
    IN ReachedFrom(Dependents(taskId) \cap among, among)

\* failTask(taskId) finds the retries exhausted
Exhausts(taskId) == tasks[taskId].attempts + 1 >= config.maxRetries

\* C9 as stated: when failTask exhausts the retries of A, A is removed as failed
\* from active-tasks and its agent's index set, and every active transitive
\* dependent of A is cancelled with a task-cancelled event whose reason is
\* "Parent task failed"; a transitive dependent is taken in the narrow sense, a task
\* the dependency index reaches from A over active tasks.
C9_AllDependentsParentFailed ==
    \A taskId \in DOMAIN tasks :
        LET W == FailOutcome(taskId)
        IN Exhausts(taskId) =>
              /\ taskId \notin DOMAIN W.tasks
              /\ W.removed # <<>> /\ W.removed[1] = [taskId |-> taskId, status |-> "failed"]
              /\ taskId \notin Range(W.agentTasks[tasks[taskId].agentId])
              /\ \A d \in CascadeOf(taskId) :
                    /\ d \notin DOMAIN W.tasks
                    /\ CancelledEvent(d, "Parent task failed") \in Range(W.events)

\* C9 amended: when failTask exhausts the retries of A, A is removed as failed from
\* active-tasks and the index set of its agentId, and exactly the active tasks that
\* the dependency index reaches from A over active tasks are cancelled, each with
\* one task-cancelled event and nothing else emitted; the first event carries
\* "Parent task failed", only recorded dependents of A carry it, and every other
\* cancelled task carries "Parent task cancelled".
C9_CascadeReasons ==
    \A taskId \in DOMAIN tasks :
        LET W == FailOutcome(taskId)
            cascade == CascadeOf(taskId)
        IN Exhausts(taskId) =>
              /\ W.error = "none"
              /\ DOMAIN W.tasks = DOMAIN tasks \ ({taskId} \cup cascade)
              /\ \A other \in DOMAIN W.tasks : W.tasks[other] = tasks[other]
              /\ W.removed # <<>> /\ W.removed[1] = [taskId |-> taskId, status |-> "failed"]
              /\ \A i \in 2..Len(W.removed) : W.removed[i].status = "cancelled"
              /\ {W.removed[i].taskId : i \in 2..Len(W.removed)} = cascade
              /\ taskId \notin Range(W.agentTasks[tasks[taskId].agentId])
              /\ Len(W.events) = Cardinality(cascade)
              /\ {e.taskId : e \in Range(W.events)} = cascade
              /\ \A e \in Range(W.events) :
                    /\ e.type = TASK_CANCELLED
                    /\ e.reason \in {"Parent task failed", "Parent task cancelled"}
                    /\ e.reason = "Parent task failed" => e.taskId \in Dependents(taskId)
              /\ W.events # <<>> => W.events[1].reason = "Parent task failed"

\* C9 witness: C depends on B and B on A, all three active; the last failure of A
\* cancels B as a dependent of the failed task and C as a dependent of B.
C9_Witness ==
    /\ DOMAIN tasks = {"A", "B", "C"}
    /\ tasks["B"].dependencies = <<"A">> /\ tasks["C"].dependencies = <<"B">>
    /\ Exhausts("A")
    /\ FailOutcome("A").events = << CancelledEvent("B", "Parent task failed"),
                                    CancelledEvent("C", "Parent task cancelled") >>
    /\ FailOutcome("A").tasks = EmptyMap

\* the outcome of cancelTask(taskId, reason) reported in the current state
CancelOutcome(taskId, reason) == RunMicrotasks(cancelTask(State, taskId, reason, <<>>))

\* C10: cancelTask(A, reason) on an active task A removes A and its active recorded
\* dependents from active-tasks with status cancelled; the first event is the
\* task-cancelled event of A with the caller's reason verbatim, and the event of
\* every dependent, at any depth, carries "Parent task cancelled".
C10_CancelCascade ==
    \A taskId \in DOMAIN tasks, reason \in CallerReasons :
        LET W == CancelOutcome(taskId, reason)
        IN /\ taskId \notin DOMAIN W.tasks
           /\ \A d \in Dependents(taskId) : d \notin DOMAIN W.tasks
           /\ \A i \in DOMAIN W.removed : W.removed[i].status = "cancelled"
           /\ {W.removed[i].taskId : i \in DOMAIN W.removed}
                 = {taskId} \cup (DOMAIN tasks \ DOMAIN W.tasks)
           /\ W.events # <<>> /\ W.events[1] = CancelledEvent(taskId, reason)
           /\ \A d \in (Dependents(taskId) \cap DOMAIN tasks) \ {taskId} :
                 CancelledEvent(d, "Parent task cancelled") \in Range(W.events)
           /\ \A i \in 2..Len(W.events) :
                 /\ W.events[i].type = TASK_CANCELLED
                 /\ W.events[i].reason = "Parent task cancelled"

\* C10 witness: A is active, its recorded dependents B and C are active, and
\* cancelTask("A", "user request") cancels the three.
C10_Witness ==
    /\ DOMAIN tasks = {"A", "B", "C"}
    /\ Dependents("A") = {"B", "C"}
    /\ CancelOutcome("A", "user request").events
          = << CancelledEvent("A", "user request"),
               CancelledEvent("B", "Parent task cancelled"),
               CancelledEvent("C", "Parent task cancelled") >>
    /\ CancelOutcome("A", "user request").tasks = EmptyMap

\* C11: cancelTask on a task id that is not in active-tasks returns without error,
\* emits no event, cancels no dependent and leaves the four indices and all timers
\* as they were.
C11_CancelAbsentIsNoOp ==
    \A taskId \in TaskIds \ DOMAIN tasks, reason \in CallerReasons :
        LET W == CancelOutcome(taskId, reason)
        IN /\ W.error = "none"
           /\ W.events = <<>> /\ W.removed = <<>>
           /\ SameIndices(W) /\ SameTimers(W)

\* C11 witness: A was completed and is not active, its recorded dependent B is active
\* with its timer armed, and cancelTask("A") leaves B and its timer alone.
C11_Witness ==
    /\ "A" \notin DOMAIN tasks /\ "A" \in Range(completedTasks)
    /\ "B" \in Dependents("A") \cap DOMAIN tasks
    /\ BagIn(TimeoutTimer("B"), timers)
    /\ CancelOutcome("A", "user request").tasks = tasks
    /\ CancelOutcome("A", "user request").timers = timers

\* the outcome of completeTask(taskId, result) reported in the current state
CompleteOutcome(taskId) == completeTask(State, taskId)

\* C12: completeTask and failTask called with a task id that is not in active-tasks
\* fail with the not-found error and change nothing: the four indices, every task's
\* status and attempts, and all timers are as before; no event is emitted.
C12_AbsentTaskRejected ==
    \A taskId \in TaskIds \ DOMAIN tasks :
        /\ CompleteOutcome(taskId).error = "TaskError"
        /\ SameIndices(CompleteOutcome(taskId)) /\ SameTimers(CompleteOutcome(taskId))
        /\ CompleteOutcome(taskId).events = <<>>
        /\ FailOutcome(taskId).error = "TaskError"
        /\ SameIndices(FailOutcome(taskId)) /\ SameTimers(FailOutcome(taskId))
        /\ FailOutcome(taskId).events = <<>>

\* C12 witness: A is not active while its recorded dependent B is, with a timer
\* armed; completeTask("A") and failTask("A") are both rejected.
C12_Witness ==
    /\ "A" \notin DOMAIN tasks
    /\ "B" \in Dependents("A") \cap DOMAIN tasks
    /\ timers # EmptyBag
    /\ CompleteOutcome("A").error = "TaskError"
    /\ FailOutcome("A").error = "TaskError"

\* C13: completeTask(T, result) on an active task T leaves T with status completed,
\* absent from active-tasks and from its agent's index set, present in
\* completed-ids, with no timer of T left armed; no task-cancelled event is emitted.
\* The timers of T are taken in the narrow sense: the execution timeout whose handle
\* the task holds and the retry delays armed by failTask, not an execution timeout
\* whose handle an assignTask call on the same id has overwritten.
C13_CompleteRemovesAndDisarms ==
    \A taskId \in DOMAIN tasks :
        LET W == CompleteOutcome(taskId)
            agentId == tasks[taskId].agentId
        IN /\ W.error = "none"
           /\ W.removed = <<[taskId |-> taskId, status |-> "completed"]>>
           /\ taskId \notin DOMAIN W.tasks
           /\ agentId \in DOMAIN W.agentTasks => taskId \notin Range(W.agentTasks[agentId])
           /\ taskId \in Range(W.completedTasks)
           /\ \A e \in Range(W.events) : e.type # TASK_CANCELLED
           /\ \A t \in BagToSet(W.timers) : t.taskId = taskId => t.kind = "timeout" /\ ~t.held

\* the active recorded dependents of taskId that completeTask(taskId) finds with
\* every dependency in completed-ids, taskId included
Eligible(taskId) ==
    {d \in (Dependents(taskId) \cap DOMAIN tasks) \ {taskId} :
        \A i \in DOMAIN tasks[d].dependencies :
            tasks[d].dependencies[i] \in Range(completedTasks) \cup {taskId}}

\* C14 as stated: when completeTask(A) returns, every active recorded dependent of A
\* whose dependencies are all in completed-ids has been moved from assigned to
\* running inside the call; a dependent with a dependency not in completed-ids is
\* not started.
C14_DependentsAssignedToRunning ==
    \A taskId \in DOMAIN tasks :
        LET W == CompleteOutcome(taskId)
        IN \A d \in (Dependents(taskId) \cap DOMAIN tasks) \ {taskId} :
              IF d \in Eligible(taskId)
              THEN tasks[d].status = "assigned" /\ W.tasks[d].status = "running"
              ELSE W.tasks[d] = tasks[d]

\* C14 amended: when completeTask(A) returns, every active recorded dependent of A
\* whose dependencies are all in completed-ids has status running, having been
\* started inside the call (task-started event, execution timeout armed) from the
\* status running or queued it was in; a dependent with a dependency not in
\* completed-ids is not started, and no other task is.
C14_DependentsStarted ==
    \A taskId \in DOMAIN tasks :
        LET W == CompleteOutcome(taskId)
        IN /\ \A d \in (Dependents(taskId) \cap DOMAIN tasks) \ {taskId} :
                 IF d \in Eligible(taskId)
                 THEN /\ tasks[d].status \in {"running", "queued"}
                      /\ W.tasks[d].status = "running"
                      /\ W.tasks[d].runtime = 0
                      /\ StartedEvent(d, tasks[d].agentId) \in Range(W.events)
                      /\ BagIn(TimeoutTimer(d), W.timers)
                 ELSE W.tasks[d] = tasks[d]
           /\ {e.taskId : e \in Range(W.events)} = Eligible(taskId)
           /\ Len(W.events) = Cardinality(Eligible(taskId))
           /\ \A e \in Range(W.events) : e.type = TASK_STARTED
           /\ \A other \in DOMAIN W.tasks \ Eligible(taskId) : W.tasks[other] = tasks[other]

\* C14 witness: A is active again after B, which depends on A alone, was assigned;
\* completeTask("A") starts B and nothing else.
C14_Witness ==
    /\ {"A", "B"} \subseteq DOMAIN tasks
    /\ tasks["B"].dependencies = <<"A">>
    /\ Eligible("A") = {"B"}
    /\ CompleteOutcome("A").events = <<StartedEvent("B", tasks["B"].agentId)>>
    /\ CompleteOutcome("A").tasks["B"].status = "running"

\* the active tasks held by an agent
HeldBy(agentId) == {t \in DOMAIN tasks : tasks[t].agentId = agentId}

\* the outcome of cancelAgentTasks(agentId) reported in the current state
CancelAgentOutcome(agentId) == cancelAgentTasks(State, agentId)

\* C15 as stated: after cancelAgentTasks(a) every task that was active and held by a
\* has status cancelled, with a task-cancelled event of reason "Agent terminated",
\* and is no longer active; the agent index has no entry for a, so that
\* getAgentTaskCount(a) = 0.
C15_AllAgentTerminated ==
    \A agentId \in AgentIds :
        LET W == CancelAgentOutcome(agentId)
        IN /\ agentId \notin DOMAIN W.agentTasks
           /\ \A t \in HeldBy(agentId) :
                 /\ t \notin DOMAIN W.tasks
                 /\ [taskId |-> t, status |-> "cancelled"] \in Range(W.removed)
                 /\ CancelledEvent(t, "Agent terminated") \in Range(W.events)

\* C15 amended: after cancelAgentTasks(a) every task that was active and held by a
\* has status cancelled and is no longer active, with exactly one task-cancelled
\* event; its reason is "Agent terminated", or "Parent task cancelled" when the
\* task is a recorded dependent of another task cancelled in the call; the first
\* event carries "Agent terminated"; the agent index has no entry for a, so that
\* getAgentTaskCount(a) = 0.
C15_AgentTasksCancelled ==
    \A agentId \in AgentIds :
        LET W == CancelAgentOutcome(agentId)
            gone == DOMAIN tasks \ DOMAIN W.tasks
        IN /\ agentId \notin DOMAIN W.agentTasks
           /\ W.error = "none"
           /\ W.events # <<>> => W.events[1].reason = "Agent terminated"
           /\ \A t \in HeldBy(agentId) :
                 /\ t \in gone
                 /\ [taskId |-> t, status |-> "cancelled"] \in Range(W.removed)
                 /\ Cardinality({i \in DOMAIN W.events : W.events[i].taskId = t}) = 1
                 /\ \A e \in Range(W.events) :
                       e.taskId = t =>
                          /\ e.type = TASK_CANCELLED
                          /\ \/ e.reason = "Agent terminated"
                             \/ /\ e.reason = "Parent task cancelled"
                                /\ \E p \in gone \ {t} : t \in Dependents(p)

\* C15 witness: agent a1 holds A and its dependent B; cancelAgentTasks("a1") cancels
\* A as the agent's task and B as the dependent of A.
C15_Witness ==
    /\ HeldBy("a1") = {"A", "B"}
    /\ "B" \in Dependents("A")
    /\ getAgentTaskCount("a1") = 2
    /\ CancelAgentOutcome("a1").events
          = << CancelledEvent("A", "Agent terminated"),
               CancelledEvent("B", "Parent task cancelled") >>
    /\ "a1" \notin DOMAIN CancelAgentOutcome("a1").agentTasks

\* the outcome of rescheduleAgentTasks(agentId) reported in the current state
RescheduleOutcome(agentId) == rescheduleAgentTasks(State, agentId)

\* C16: rescheduleAgentTasks(a) sets every running task held by a to queued with
\* attempts = 0 and emits one task-created event for each; it removes nothing from
\* active-tasks, the agent index, the dependency index or completed-ids, and leaves
\* the tasks of a that are not running and all tasks of other agents unchanged.
C16_RescheduleRequeuesRunning ==
    \A agentId \in AgentIds :
        LET W == RescheduleOutcome(agentId)
            running == {t \in HeldBy(agentId) : tasks[t].status = "running"}
        IN /\ W.error = "none"
           /\ W.taskKeys = taskKeys /\ W.agentTasks = agentTasks
           /\ W.taskDependencies = taskDependencies
           /\ W.completedTasks = completedTasks
           /\ DOMAIN W.tasks = DOMAIN tasks
           /\ \A t \in running :
                 /\ W.tasks[t].status = "queued" /\ W.tasks[t].attempts = 0
                 /\ W.tasks[t].agentId = agentId
                 /\ W.tasks[t].dependencies = tasks[t].dependencies
           /\ \A t \in DOMAIN tasks \ running : W.tasks[t] = tasks[t]
           /\ Len(W.events) = Cardinality(running)
           /\ \A t \in running : CreatedEvent(t) \in Range(W.events)

\* C17: reassignment moves the task.  For a task T that rescheduleAgentTasks(a1) has
\* set to queued, an accepted assignTask(T, a2) with a2 different from a1 leaves T
\* indexed under a2 only: T is not in the index set of a1, so it is neither counted
\* by getAgentTaskCount(a1) nor cancelled by cancelAgentTasks(a1).
C17_ReassignmentMoves ==
    \A taskId \in DOMAIN tasks, a2 \in AgentIds :
        LET a1 == tasks[taskId].agentId
            W == assignTask(State, taskId, tasks[taskId].dependencies, a2)
        IN tasks[taskId].status = "queued" /\ a2 # a1 /\ W.error = "none" =>
              /\ W.tasks[taskId].agentId = a2
              /\ taskId \in Range(W.agentTasks[a2])
              /\ \A a \in DOMAIN W.agentTasks \ {a2} : taskId \notin Range(W.agentTasks[a])

\* C18: a task that rescheduleAgentTasks put in status queued leaves queued for
\* running only in an assignTask call of a caller: no timer callback, maintenance
\* sweep or other call takes a queued task to running.
C18_QueuedUntilAssigned ==
    [][\A taskId \in TaskIds :
          (/\ taskId \in DOMAIN tasks /\ tasks[taskId].status = "queued"
           /\ taskId \in DOMAIN tasks' /\ tasks'[taskId].status = "running")
             => assignCalls' = assignCalls + 1]_vars

\* the active tasks a maintenance sweep finds stuck: running for strictly more than
\* twice resourceTimeout
Stuck ==
    {t \in DOMAIN tasks : tasks[t].status = "running"
                            /\ tasks[t].runtime > 2 * config.resourceTimeout}

\* the outcome of performMaintenance() reported in the current state
MaintenanceOutcome == RunMicrotasks(performMaintenance(State))

\* failTask called to completion on each task of ids in turn that is still active
RECURSIVE FailEach(_, _)
FailEach(W, ids) ==
    IF ids = <<>> THEN W
    ELSE IF Head(ids) \in DOMAIN W.tasks
         THEN FailEach(RunMicrotasks(failTask(W, Head(ids), <<>>)), Tail(ids))
         ELSE FailEach(W, Tail(ids))

C20_HistoryAlwaysCapped ==
    /\ Len(completedTasks) <= HistoryCap
    /\ getHealthStatus.completedTasks <= HistoryCap

\* the last n entries of a sequence
LastOf(s, n) == IF Len(s) <= n THEN s ELSE SubSeq(s, Len(s) - n + 1, Len(s))

\* C20 amended: the size of completed-ids, which is the completedTasks metric of
\* getHealthStatus, is at or below the cap when a maintenance call
\* (performMaintenance, or the cleanup of the interval) returns; the entries evicted
\* are the ones inserted earliest and the cap-many entries inserted latest are
\* retained, in their order.  completeTask evicts nothing.
C20_CleanupCapsHistory ==
    /\ getHealthStatus.completedTasks = Len(completedTasks)
    /\ Len(MaintenanceOutcome.completedTasks) <= HistoryCap
    /\ MaintenanceOutcome.completedTasks = LastOf(completedTasks, HistoryCap)
    /\ cleanup(State).completedTasks = LastOf(completedTasks, HistoryCap)
    /\ \A taskId \in DOMAIN tasks :
          /\ Len(CompleteOutcome(taskId).completedTasks) >= Len(completedTasks)
          /\ \A i \in DOMAIN completedTasks :
                CompleteOutcome(taskId).completedTasks[i] = completedTasks[i]

\* C20 witness: one id more than the cap has been completed, A first; the sweep
\* evicts A and keeps B and C.
C20_Witness ==
    /\ completedTasks = <<"A", "B", "C">>
    /\ Len(completedTasks) = HistoryCap + 1
    /\ MaintenanceOutcome.completedTasks = <<"B", "C">>

\* the ids that a cleanup of the current completed-ids evicts: the surplus over the
\* cap, taken from the front of the insertion order
Surplus ==
    IF Len(completedTasks) > HistoryCap
    THEN {completedTasks[i] : i \in 1 .. Len(completedTasks) - HistoryCap}
    ELSE {}

\* C21: after cleanup has evicted a completed id D from completed-ids, assignTask of
\* any task listing D as a dependency fails with a DependencyError that names D and
\* changes nothing; this lasts as long as D, once completed, is not in
\* completed-ids, that is until D is completed again.
C21_EvictedDependencyUnmet ==
    \A taskId \in TaskIds, agentId \in AgentIds, dependencies \in AllDependencyLists :
        /\ \A D \in Surplus \cap Range(dependencies) :
              LET W0 == cleanup(State)
                  W == assignTask(W0, taskId, dependencies, agentId)
              IN /\ W.error = "TaskDependencyError"
                 /\ D \in Range(W.unmet)
                 /\ W.tasks = W0.tasks /\ W.completedTasks = W0.completedTasks
                 /\ W.events = <<>>
        /\ \A D \in (everCompleted \ Range(completedTasks)) \cap Range(dependencies) :
              LET W == assignTask(State, taskId, dependencies, agentId)
              IN /\ W.error = "TaskDependencyError"
                 /\ D \in Range(W.unmet)
                 /\ SameIndices(W) /\ W.events = <<>>

\* C21 witness: A, B and C were completed in this order with a cap of two; the
\* cleanup evicts A, and assignTask of a task depending on A and B then names A.
C21_Witness ==
    /\ completedTasks = <<"A", "B", "C">>
    /\ Surplus = {"A"}
    /\ assignTask(State, "C", <<"A", "B">>, "a1").error = "none"
    /\ assignTask(cleanup(State), "C", <<"A", "B">>, "a1").error = "TaskDependencyError"
    /\ assignTask(cleanup(State), "C", <<"A", "B">>, "a1").unmet = <<"A">>

\* the outcome of shutdown() reported in the current state
ShutdownOutcome == shutdown(State)

\* C22: when shutdown returns, active-tasks, the agent index, the dependency index
\* and completed-ids are all empty and no cancellation cascade is pending, whatever
\* was active or armed when it was called.
C22_ShutdownEmptiesIndices ==
    LET W == ShutdownOutcome
    IN /\ W.error = "none"
       /\ W.tasks = EmptyMap /\ W.taskKeys = <<>>
       /\ W.agentTasks = EmptyMap
       /\ W.taskDependencies = EmptyMap
       /\ W.completedTasks = <<>>
       /\ W.jobs = <<>>
       /\ {W.removed[i].taskId : i \in DOMAIN W.removed} = DOMAIN tasks

\* C22 witness: A, its dependent B and the dependent C of B are active and ids are
\* in completed-ids when shutdown is called.
C22_Witness ==
    /\ DOMAIN tasks = {"A", "B", "C"}
    /\ "B" \in Dependents("A") /\ "C" \in Dependents("B")
    /\ completedTasks # <<>> /\ timers # EmptyBag
    /\ ShutdownOutcome.tasks = EmptyMap
    /\ Len(ShutdownOutcome.removed) = 3

\* C23 as stated: shutdown cancels every task that is active when it is called
\* with reason "Scheduler shutdown": the task-cancelled event of each carries that
\* reason, dependents of other active tasks included.
C23_AllSchedulerShutdown ==
    \A t \in DOMAIN tasks :
        CancelledEvent(t, "Scheduler shutdown") \in Range(ShutdownOutcome.events)

\* C23 amended: shutdown cancels every task that is active when it is called, with
\* exactly one task-cancelled event each and no other event; the reason is
\* "Scheduler shutdown", or "Parent task cancelled" for a task that is a recorded
\* dependent of another task active at the call, when the cascade from that task
\* reaches it first; the first event carries "Scheduler shutdown".
C23_ShutdownCancelsAll ==
    LET W == ShutdownOutcome
    IN /\ Len(W.events) = Cardinality(DOMAIN tasks)
       /\ {e.taskId : e \in Range(W.events)} = DOMAIN tasks
       /\ \A i \in DOMAIN W.removed : W.removed[i].status = "cancelled"
       /\ W.events # <<>> => W.events[1].reason = "Scheduler shutdown"
       /\ \A e \in Range(W.events) :
             /\ e.type = TASK_CANCELLED
             /\ \/ e.reason = "Scheduler shutdown"
                \/ /\ e.reason = "Parent task cancelled"
                   /\ \E p \in DOMAIN tasks \ {e.taskId} : e.taskId \in Dependents(p)

\* C23 witness: A and its dependent B are active, A first in active-tasks; shutdown
\* cancels A as such and B as the dependent of A.
C23_Witness ==
    /\ taskKeys = <<"A", "B">>
    /\ "B" \in Dependents("A")
    /\ ShutdownOutcome.events = << CancelledEvent("A", "Scheduler shutdown"),
                                   CancelledEvent("B", "Parent task cancelled") >>

\* C24: terminal states are final.  For a task id that has reached completed and
\* is no longer active, no later operation or timer callback starts it again: an
\* assignTask call for the id does not make it active or emit a task-started event
\* for it, and neither does the callback of a timer armed for the id.
C24_TerminalIsFinal ==
    \A taskId \in everCompleted \ DOMAIN tasks :
        /\ \A agentId \in AgentIds, dependencies \in AllDependencyLists :
              LET W == assignTask(State, taskId, dependencies, agentId)
              IN /\ taskId \notin DOMAIN W.tasks
                 /\ \A e \in Range(W.events) : e.taskId # taskId
        /\ \A t \in BagToSet(timers) :
              t.taskId = taskId =>
                 LET W == IF t.kind = "retry" THEN startTask(State, taskId)
                          ELSE RunMicrotasks(failTask(State, taskId, <<>>))
                 IN taskId \notin DOMAIN W.tasks /\ W.events = <<>>

\* C25: no stale timer.  In every reachable state every armed execution-timeout or
\* retry-delay timer belongs to a task id that is in active-tasks: completeTask,
\* terminal failTask, cancelTask and shutdown leave no timer armed for a task they
\* remove.
C25_NoStaleTimer ==
    \A t \in BagToSet(timers) : t.taskId \in DOMAIN tasks

\* assignTask of any task that lists taskId as a dependency is rejected in W
Unsatisfiable(W, taskId) ==
    /\ taskId \notin Range(W.completedTasks)
    /\ \A other \in TaskIds, agentId \in AgentIds, dependencies \in AllDependencyLists :
          taskId \in Range(dependencies) =>
             assignTask(W, other, dependencies, agentId).error = "TaskDependencyError"

\* C26: a task id that reaches failed or cancelled is not in completed-ids, so that
\* assignTask of any task listing it as a dependency fails with DependencyError.
C26_FailedNeverSatisfies ==
    \A taskId \in DOMAIN tasks :
        /\ \A reason \in CallerReasons : Unsatisfiable(CancelOutcome(taskId, reason), taskId)
        /\ Exhausts(taskId) => Unsatisfiable(FailOutcome(taskId), taskId)

\* two active tasks that depend on each other, each recorded as a dependent of the
\* other
Cyclic(a, b) ==
    /\ a # b /\ {a, b} \subseteq DOMAIN tasks
    /\ b \in Dependents(a) /\ a \in Dependents(b)
    /\ b \in Range(tasks[a].dependencies) /\ a \in Range(tasks[b].dependencies)

\* the call has returned: no frame of it waits in the job queue
Returned(W) == W.jobs = <<>> /\ W.error = "none"

\* C27 as stated: when active tasks A and B each have the other recorded as a
\* dependent, cancelTask(A) recurses through cancelDependentTasks without bound and
\* does not complete.
C27_CycleNeverReturns ==
    \A a \in DOMAIN tasks, b \in DOMAIN tasks, reason \in CallerReasons :
        Cyclic(a, b) => ~Returned(CancelOutcome(a, reason))

\* C27 amended: when active tasks A and B each have the other recorded as a
\* dependent, cancelTask(A) completes: it removes A before it cascades, so the
\* cancelTask(A) that the cascade from B calls finds A not active and returns; A is
\* cancelled once with the caller's reason, B once with "Parent task cancelled",
\* and no task is cancelled twice.
C27_CycleCancelledOnce ==
    \A a \in DOMAIN tasks, b \in DOMAIN tasks, reason \in CallerReasons :
        Cyclic(a, b) =>
            LET W == CancelOutcome(a, reason)
            IN /\ Returned(W)
               /\ a \notin DOMAIN W.tasks /\ b \notin DOMAIN W.tasks
               /\ Len(W.events) >= 2
               /\ W.events[1] = CancelledEvent(a, reason)
               /\ CancelledEvent(b, "Parent task cancelled") \in Range(W.events)
               /\ \A i, j \in DOMAIN W.events :
                     W.events[i].taskId = W.events[j].taskId => i = j
               /\ Len(W.removed) = Len(W.events)
               /\ Len(W.events) = Cardinality(DOMAIN tasks \ DOMAIN W.tasks)

\* C27 witness: A depends on B and B on A, both active and each in the other's
\* entry of the dependency index; cancelTask("A", "user request") returns with both
\* cancelled.
C27_Witness ==
    /\ Cyclic("A", "B")
    /\ Returned(CancelOutcome("A", "user request"))
    /\ {"A", "B"} \cap DOMAIN CancelOutcome("A", "user request").tasks = {}

\* C28 as stated: every firing of the recurring timer armed by initialize has the
\* effect of one performMaintenance call on the scheduler state: the cleanup of the
\* history and the forced failure of every stuck running task.
C28_IntervalIsMaintenance ==
    [][IntervalFires =>
          /\ tasks' = MaintenanceOutcome.tasks
          /\ taskKeys' = MaintenanceOutcome.taskKeys
          /\ agentTasks' = MaintenanceOutcome.agentTasks
          /\ taskDependencies' = MaintenanceOutcome.taskDependencies
          /\ completedTasks' = MaintenanceOutcome.completedTasks
          /\ timers' = MaintenanceOutcome.timers]_vars

\* C28 amended: every firing of the recurring timer armed by initialize runs the
\* bounded-history cleanup only: completed-ids and the dependency index become
\* what a performMaintenance call would make them, while active-tasks, the agent
\* index and the timers stay as they are; a stuck running task is not failed.
C28_IntervalIsCleanup ==
    [][IntervalFires =>
          /\ completedTasks' = LastOf(completedTasks, HistoryCap)
          /\ completedTasks' = MaintenanceOutcome.completedTasks
          /\ taskDependencies' = MaintenanceOutcome.taskDependencies
          /\ tasks' = tasks /\ taskKeys' = taskKeys /\ agentTasks' = agentTasks
          /\ timers' = timers
          /\ \A t \in Stuck : t \in DOMAIN tasks' /\ tasks'[t].attempts = tasks[t].attempts]_vars

\* C28 witness: the interval is armed, three ids are in completed-ids with a cap of
\* two and a running task is stuck: the cleanup trims the history and leaves the
\* task, the sweep of performMaintenance fails it.
C28_Witness ==
    /\ intervals > 0
    /\ Len(completedTasks) > HistoryCap
    /\ Stuck # {}
    /\ cleanup(State).tasks = tasks
    /\ Len(cleanup(State).completedTasks) = HistoryCap
    /\ MaintenanceOutcome.tasks # tasks

\* C29: liveness.  If every armed timer eventually fires and the task is not
\* assigned or rescheduled again, every task in active-tasks eventually leaves
\* active-tasks, whether or not a caller reports its completion or failure.
C29_ActiveEventuallyLeaves ==
    \A taskId \in IdsLive : (taskId \in DOMAIN tasks) ~> (taskId \notin DOMAIN tasks)

\* C29 witness: with maxRetries = 3, A waits for its second retry after two
\* execution timeouts, nothing having been reported by a caller.
C29_Witness ==
    /\ config.maxRetries = 3
    /\ "A" \in DOMAIN tasks /\ tasks["A"].attempts = 2 /\ tasks["A"].phase = "waiting"
    /\ RetryTimers(timers, "A") = 1
    /\ everCompleted = {}

\* C30: in every reachable state at most one timer, execution timeout or retry
\* delay, is armed for a task id.
TimersOf(B, taskId) ==
    BagCardinality([t \in {x \in BagToSet(B) : x.taskId = taskId} |-> B[t]])

C30_OneTimerPerTask ==
    \A taskId \in IdsRetry : TimersOf(timers, taskId) <= 1

\* the task-cancelled events for taskId and the tasks dropped as cancelled under
\* that id in the outcome W of a call
CancelEvents(W, taskId) ==
    Cardinality({i \in DOMAIN W.events :
                    W.events[i].type = TASK_CANCELLED /\ W.events[i].taskId = taskId})
CancelledDrops(W, taskId) ==
    Cardinality({i \in DOMAIN W.removed :
                    W.removed[i].taskId = taskId /\ W.removed[i].status = "cancelled"})

\* one call cancels a task at most once and announces exactly the tasks it cancels
NoDoubleProcessing(W) ==
    \A taskId \in TaskIds :
        /\ CancelEvents(W, taskId) = CancelledDrops(W, taskId)
        /\ CancelEvents(W, taskId) <= 1
        /\ CancelledDrops(W, taskId) = 1 => taskId \in DOMAIN tasks

\* C31: no double-processing in cascades.  During one cancelTask, cancelAgentTasks,
\* terminal failTask or shutdown call every active task that gets cancelled emits
\* exactly one task-cancelled event, also when it is reached through several
\* dependency paths or is both cancelled directly and a dependent of a cancelled
\* task; shutdown cancels every active task.
C31_CancelledExactlyOnce ==
    /\ \A taskId \in TaskIds, reason \in CallerReasons :
           NoDoubleProcessing(CancelOutcome(taskId, reason))
    /\ \A agentId \in AgentIds : NoDoubleProcessing(CancelAgentOutcome(agentId))
    /\ \A taskId \in DOMAIN tasks : NoDoubleProcessing(FailOutcome(taskId))
    /\ NoDoubleProcessing(ShutdownOutcome)
    /\ \A taskId \in DOMAIN tasks : CancelEvents(ShutdownOutcome, taskId) = 1

\* C31 witness: A, B and C are active on one agent and C is a recorded dependent
\* of both A and B, so cancelAgentTasks and shutdown reach C directly and through
\* the cascades of A and of B; each call announces three cancellations.
C31_Witness ==
    /\ DOMAIN tasks = {"A", "B", "C"}
    /\ \A t \in DOMAIN tasks : tasks[t].agentId = "a1"
    /\ "A" \in DOMAIN taskDependencies /\ "C" \in Range(taskDependencies["A"])
    /\ "B" \in DOMAIN taskDependencies /\ "C" \in Range(taskDependencies["B"])
    /\ Len(ShutdownOutcome.events) = 3
    /\ Len(CancelAgentOutcome("a1").events) = 3

\* C32: reverse edges are pruned with eviction.  In every reachable state every
\* key of the dependency index is in completed-ids, and cleanup leaves no key for
\* an id it evicts.
C32_EdgesOnlyForCompleted ==
    /\ DOMAIN taskDependencies \subseteq Range(completedTasks)
    /\ LET W == cleanup(State)
       IN /\ DOMAIN W.taskDependencies \subseteq Range(W.completedTasks)
          /\ \A taskId \in Range(completedTasks) \ Range(W.completedTasks) :
                 taskId \notin DOMAIN W.taskDependencies

\* C32 witness: the history is over its cap and the oldest completed id has an
\* active dependent recorded; cleanup evicts the id together with its edge set.
C32_Witness ==
    /\ Len(completedTasks) > HistoryCap
    /\ completedTasks[1] \in DOMAIN taskDependencies
    /\ \E taskId \in DOMAIN tasks : taskId \in Range(taskDependencies[completedTasks[1]])
    /\ completedTasks[1] \notin DOMAIN cleanup(State).taskDependencies

\* C33: async operations are atomic for other callers.  When assignTask(T, a) runs
\* while cancelAgentTasks(a) is suspended at its await and succeeds, then after
\* cancelAgentTasks has finished T is in active-tasks and registered under a, and
\* every active task is registered under its agent.
C33_AssignDuringCancelAgentTasks ==
    \A agentId \in AgentIds, taskId \in Ids :
        \A dependencies \in Lists[taskId] :
            LET W == cancelAgentTasksWhileAssign(State, agentId, taskId, dependencies, agentId)
            IN W.error = "none" =>
                 /\ taskId \in DOMAIN W.tasks
                 /\ \A t \in DOMAIN W.tasks :
                        /\ W.tasks[t].agentId \in DOMAIN W.agentTasks
                        /\ t \in Range(W.agentTasks[W.tasks[t].agentId])

\* C34: initialize is idempotent.  However many times it was called, at most one
\* recurring timer is armed.
C34_OneRecurringTimer ==
    intervals <= 1

\* max(1, maxRetries)
MaxExecutions == IF config.maxRetries > 1 THEN config.maxRetries ELSE 1

\* C35: every task in active-tasks has 0 <= attempts < max(1, maxRetries); the
\* failTask call that takes attempts to maxRetries or beyond removes the task.
C35_AttemptsBelowMaxRetries ==
    \A taskId \in DOMAIN tasks :
        /\ tasks[taskId].attempts >= 0
        /\ tasks[taskId].attempts < MaxExecutions
        /\ LET W == FailOutcome(taskId)
           IN /\ taskId \in DOMAIN W.tasks => W.tasks[taskId].attempts < MaxExecutions
              /\ tasks[taskId].attempts + 1 >= config.maxRetries =>
                    taskId \notin DOMAIN W.tasks

\* C35 witness: with maxRetries = 3 task A has failed twice and is active; its
\* next failure removes it.
C35_Witness ==
    /\ config.maxRetries = 3
    /\ "A" \in DOMAIN tasks /\ tasks["A"].attempts = 2
    /\ "A" \notin DOMAIN FailOutcome("A").tasks

\* C36: between public operations every task in active-tasks has status running
\* or queued; hence getHealthStatus reports failed = 0, cancelled = 0, completed =
\* the size of completed-ids and running + queued = activeTasks.
C36_ActiveIsRunningOrQueued ==
    /\ \A taskId \in DOMAIN tasks : tasks[taskId].status \in {"running", "queued"}
    /\ getHealthStatus.failed = 0
    /\ getHealthStatus.cancelled = 0
    /\ getHealthStatus.pending = 0
    /\ getHealthStatus.assigned = 0
    /\ getHealthStatus.completed = Len(completedTasks)
    /\ getHealthStatus.running + getHealthStatus.queued = getHealthStatus.activeTasks

\* C36 witness: A is completed, B was rescheduled and is queued, A was assigned
\* again, has failed once and is running.
C36_Witness ==
    /\ DOMAIN tasks = {"A", "B"}
    /\ tasks["A"].status = "running" /\ tasks["A"].attempts = 1
    /\ tasks["B"].status = "queued"
    /\ getHealthStatus.completed = 1
    /\ getHealthStatus.running = 1 /\ getHealthStatus.queued = 1

\* C37: a cascade cancels only real dependents.  For every edge D -> B of the
\* dependency index with B active, D is in the dependencies of B, so a cancelTask
\* or terminal failTask of a task cancels through the index only tasks that
\* depend on it.
C37_EdgesAreDependencies ==
    \A depId \in DOMAIN taskDependencies :
        \A taskId \in Range(taskDependencies[depId]) :
            taskId \in DOMAIN tasks => depId \in Range(tasks[taskId].dependencies)

\* C38: a task that is waiting out its retry delay (failTask has armed the retry,
\* the delay has not elapsed and startTask has not run again) is not failed by
\* performMaintenance: the sweep
\* does not increment its attempts, does not set it failed and arms no second
\* retry.
C38_SweepSparesRetryWait ==
    \A taskId \in DOMAIN tasks :
        (/\ tasks[taskId].phase = "waiting" /\ RetryTimers(timers, taskId) = 1
         /\ \E t \in BagToSet(timers) :
                t.kind = "retry" /\ t.taskId = taskId /\ t.remaining > 0) =>
            LET W == MaintenanceOutcome
            IN /\ taskId \in DOMAIN W.tasks =>
                      W.tasks[taskId].attempts = tasks[taskId].attempts
               /\ \A i \in DOMAIN W.removed :
                      W.removed[i] # [taskId |-> taskId, status |-> "failed"]
               /\ RetryTimers(W.timers, taskId) = 1

\* the dependencies of an active task that are not in completed-ids
Missing(taskId) == Range(tasks[taskId].dependencies) \ Range(completedTasks)

\* C39 as stated: every active task with status running has all ids of its
\* dependencies in completed-ids, also after cleanup has evicted old completed
\* ids and after a retry restart.
C39_RunningDepsInCompletedIds ==
    \A taskId \in DOMAIN tasks :
        tasks[taskId].status = "running" => Missing(taskId) = {}

\* C39 amended: every dependency of a running active task was completed and put
\* into completed-ids; one that is no longer there has been evicted from the
\* history since, and as long as no completed id has left the history every
\* dependency of a running task is in completed-ids.
C39_RunningDepsCompletedOrEvicted ==
    \A taskId \in DOMAIN tasks :
        tasks[taskId].status = "running" =>
            /\ Missing(taskId) \subseteq everCompleted \ Range(completedTasks)
            /\ everCompleted \subseteq Range(completedTasks) => Missing(taskId) = {}

\* C39 witness: C runs with dependency A; A was completed and then evicted by
\* cleanup, the history standing at its cap.
C39_Witness ==
    /\ "C" \in DOMAIN tasks /\ tasks["C"].status = "running"
    /\ tasks["C"].dependencies = <<"A">>
    /\ Missing("C") = {"A"} /\ "A" \in everCompleted
    /\ Len(completedTasks) = HistoryCap

\* C40: with maxRetries = 0, and likewise with maxRetries = 1, the first failTask
\* or execution timeout of a task sets it failed and removes it with no retry
\* armed, so the task is started exactly once; in general a task whose executions
\* each fail is executed max(1, maxRetries) times before it is failed for good.
C40_ExecutionsBeforeTerminalFailure ==
    /\ config.maxRetries <= 1 =>
          /\ \A taskId \in IdsRetry : RetryTimers(timers, taskId) = 0
          /\ \A taskId \in DOMAIN tasks :
                 LET W == FailOutcome(taskId)
                 IN /\ tasks[taskId].phase = "executing" => tasks[taskId].starts = 1
                    /\ tasks[taskId].phase # "waiting"
                    /\ taskId \notin DOMAIN W.tasks
                    /\ W.removed[1] = [taskId |-> taskId, status |-> "failed"]
                    /\ RetryTimers(W.timers, taskId) = 0
    /\ \A taskId \in DOMAIN tasks :
           LET task == tasks[taskId]
               W == FailOutcome(taskId)
           IN /\ task.phase \in {"executing", "waiting"} => task.starts <= MaxExecutions
              /\ task.phase = "executing" =>
                    (taskId \notin DOMAIN W.tasks <=> task.starts = MaxExecutions)

\* C40 witness: with maxRetries = 0 task B runs its first execution with its
\* timeout due; the failure removes it as failed.
C40_Witness ==
    /\ config.maxRetries = 0
    /\ "B" \in DOMAIN tasks /\ tasks["B"].phase = "executing" /\ tasks["B"].starts = 1
    /\ \E t \in BagToSet(timers) : t.taskId = "B" /\ t.kind = "timeout" /\ t.remaining = 0
    /\ FailOutcome("B").removed[1] = [taskId |-> "B", status |-> "failed"]
====
